---- MODULE Spec2Model ----
(***************************************************************************)
(* A model of helper_structs: the Result container (result.py), the       *)
(* FailureContainer record (failure.py) and the safe_exec decorator       *)
(* (safe_exec.py).                                                         *)
(*                                                                         *)
(* Result objects and the dictionaries they reference live in two heaps   *)
(* (results, dicts); an object's identity is its index.  Every action is  *)
(* one call made by client code; its inputs, its outcome (returned value  *)
(* or raised exception) and the number of times it invoked the callable   *)
(* it was given are recorded in the variable last.  The variable chain    *)
(* follows a chain of combinator calls, each made on the Result the one   *)
(* before returned.                                                        *)
(***************************************************************************)
EXTENDS Integers, Sequences, FiniteSets, TLC

VARIABLES results, dicts, last, chain

vars == <<results, dicts, last, chain>>

(***************************************************************************)
(* Bounds of the model.                                                    *)
(***************************************************************************)
MaxResults == 2
MaxChain == 3
MaxLawResults == 4

(***************************************************************************)
(* Python values.  A value is its class, an integer payload and a string  *)
(* payload (an exception's message, a str's characters).                   *)
(***************************************************************************)
PyInt(k) == [cls |-> "int", n |-> k, s |-> ""]
PyStr(t) == [cls |-> "str", n |-> 0, s |-> t]
PyExc(c, msg) == [cls |-> c, n |-> 0, s |-> msg]
PyNone == [cls |-> "NoneType", n |-> 0, s |-> ""]
PyBool(b) == [cls |-> "bool", n |-> IF b THEN 1 ELSE 0, s |-> ""]

\* The classes below Exception; SystemExit derives from BaseException only.
ExceptionClasses ==
    {"ZeroDivisionError", "TypeError", "ValueError", "AttributeError"}

\* `except Exception as e` (result.py 318, 369; safe_exec.py 45) handles e.
ExceptMatchesBroken(e) == TRUE
ExceptMatches(e) == e.cls \in ExceptionClasses

\* str(n) for n >= 0, digit by digit.
Digit(d) == CASE d = 0 -> "0" [] d = 1 -> "1" [] d = 2 -> "2" [] d = 3 -> "3"
              [] d = 4 -> "4" [] d = 5 -> "5" [] d = 6 -> "6" [] d = 7 -> "7"
              [] d = 8 -> "8" [] OTHER -> "9"
RECURSIVE IntStr(_)
IntStr(k) == IF k < 10 THEN Digit(k) ELSE IntStr(k \div 10) \o Digit(k % 10)

\* str(v), as the f-strings of unwrap and unwrap_err format the held value.
Str(v) == CASE v.cls = "int" -> IntStr(v.n)
            [] v.cls = "NoneType" -> "None"
            [] OTHER -> v.s

\* The values client code hands to the constructors.
ZeroDiv == PyExc("ZeroDivisionError", "integer division or modulo by zero")
Exit == PyExc("SystemExit", "")
InputVals == {PyInt(0), PyInt(1), PyStr("fail")}
InputFaults == {PyInt(1), PyStr("fail"), ZeroDiv}

(***************************************************************************)
(* Callables handed to the combinators, to unwrap_or_else and to          *)
(* safe_exec:                                                              *)
(*   def flip(x, by=1): return by - x                                     *)
(*   def inv(x): return 1 // x              (the spec's x -> x/0 example) *)
(*   functools.partial(inv)                 (a callable with no __name__) *)
(*   def leave(x): raise SystemExit         (raises past Exception)       *)
(* and the compositions of two of the functions, lambda x: g(f(x)), each  *)
(* known by the text of its body.                                          *)
(***************************************************************************)
Funcs == {"flip", "inv", "partial", "leave"}

Composable == {"flip", "inv"}
LambdaId(f, g) == g \o "(" \o f \o "(x))"
Lambdas == {LambdaId(f, g) : f \in Composable, g \in Composable}
Inner(l) == CHOOSE f \in Composable : \E g \in Composable : LambdaId(f, g) = l
Outer(l) == CHOOSE g \in Composable : \E f \in Composable : LambdaId(f, g) = l

\* func.__name__ exists for functions, not for partial objects; a function's
\* __name__ is the name its def gave it, by which the model knows it; every
\* lambda's __name__ is "<lambda>".
HasName(f) == f # "partial"
NameOf(f) == IF f \in Lambdas THEN "<lambda>" ELSE f
\* func.__annotations__ exists for functions, not for partial objects (nor
\* for builtins): safe_exec(functools.partial(inv)) raises AttributeError.
HasAnnotations(f) == f # "partial"

Returned(v) == [raised |-> FALSE, val |-> v]
Raised(e) == [raised |-> TRUE, val |-> e]

ArityError == PyExc("TypeError", "wrong number of arguments")
KeywordError == PyExc("TypeError", "unexpected keyword argument")
OperandError == PyExc("TypeError", "unsupported operand type")

KwNames(kwargs) == {p[1] : p \in kwargs}
KwGet(kwargs, k) == (CHOOSE p \in kwargs : p[1] = k)[2]

\* f(*argv, **kwargs) for a function made by def or by partial: what the
\* call returns or raises.
CallDef(f, argv, kwargs) ==
    IF f = "flip"
    THEN IF ~(KwNames(kwargs) \subseteq {"by"}) THEN Raised(KeywordError)
         ELSE IF Len(argv) \notin {1, 2} THEN Raised(ArityError)
         ELSE IF Len(argv) = 2 /\ kwargs # {} THEN Raised(ArityError)
         ELSE LET by == IF Len(argv) = 2 THEN argv[2]
                        ELSE IF kwargs # {} THEN KwGet(kwargs, "by")
                        ELSE PyInt(1)
              IN IF argv[1].cls # "int" \/ by.cls # "int"
                 THEN Raised(OperandError)
                 ELSE Returned(PyInt(by.n - argv[1].n))
    ELSE IF kwargs # {} THEN Raised(KeywordError)
         ELSE IF Len(argv) # 1 THEN Raised(ArityError)
         ELSE IF f = "leave" THEN Raised(Exit)
         ELSE IF argv[1].cls # "int" THEN Raised(OperandError)
         ELSE IF argv[1].n = 0 THEN Raised(ZeroDiv)
         ELSE Returned(PyInt(1 \div argv[1].n))

\* (lambda x: g(f(x)))(*argv, **kwargs): g is called with what f returned,
\* and is not called when f raised.
CallLambda(l, argv, kwargs) ==
    IF kwargs # {} THEN Raised(KeywordError)
    ELSE IF Len(argv) # 1 THEN Raised(ArityError)
    ELSE LET a == CallDef(Inner(l), <<argv[1]>>, {})
         IN IF a.raised THEN a ELSE CallDef(Outer(l), <<a.val>>, {})

\* f(*argv, **kwargs): what the call returns or raises.
Call(f, argv, kwargs) ==
    IF f \in Lambdas THEN CallLambda(f, argv, kwargs)
    ELSE CallDef(f, argv, kwargs)

\* The *args and **kwargs client code passes along.
Extras ==
    {[args |-> <<>>, kwargs |-> {}],
     [args |-> <<PyInt(1)>>, kwargs |-> {}],
     [args |-> <<>>, kwargs |-> {<<"by", PyInt(1)>>}]}


(***************************************************************************)
(* Failure dictionaries.  keys is the set of keys present; a field whose  *)
(* key is absent holds a placeholder.  The value under "_val" (bind,      *)
(* bind_err) or "val" (FailureContainer) is the field val; keys tells     *)
(* which of the two names it has.  extra holds any other key.             *)
(***************************************************************************)
EmptyDict ==
    [keys |-> {}, trace |-> "", func |-> "", args |-> <<>>, kwargs |-> {},
     exception |-> PyNone, val |-> PyNone, extra |-> {}]

\* The three `= {}` defaults, each one dict object made when its def runs.
InitDefault == 1
ErrDefault == 2
ModuleErrDefault == 3

\* traceback.format_exc() while `active` is being handled (None: no handler).
format_exc(active) ==
    IF active = PyNone THEN "NoneType: None"
    ELSE "Traceback (most recent call last): " \o active.cls \o ": " \o active.s

NoObj == [val |-> PyNone, is_ok |-> FALSE, type |-> "NoneType", failure |-> 0]

\* Result.__init__(self, _val, _is_ok, _build, _failure).
InitTypeError ==
    PyExc("TypeError", "This class can't be initialized directly")
ResultInit(val, is_ok, build, failure) ==
    IF ~build
    THEN [raised |-> TRUE, exc |-> InitTypeError, obj |-> NoObj]
    ELSE [raised |-> FALSE, exc |-> PyNone,
          obj |-> [val |-> val, is_ok |-> is_ok, type |-> val.cls,
                   failure |-> failure]]

\* Result.Ok(val): cls(val, True, _build=True); _failure takes its default.
ClsOk(val) == ResultInit(val, TRUE, TRUE, InitDefault).obj

\* Result.Err(err, failure): cls(err, False, _build=True, _failure=failure).
ClsErr(err, failure) == ResultInit(err, FALSE, TRUE, failure).obj

\* The properties is_ok and is_err of a Result object.
is_ok(r) == r.is_ok
is_err_same(r) == r.is_ok
is_err(r) == ~r.is_ok

(***************************************************************************)
(* The effect of one call: what it raised or returned (ret: the identity  *)
(* of the returned Result, 0 when the call returns no Result; val: the    *)
(* returned plain value), the objects it allocated and how many times it  *)
(* invoked the callable it was handed.                                     *)
(***************************************************************************)
NextResult == Len(results) + 1
NextDict == Len(dicts) + 1

Propagate(e, k) ==
    [raised |-> TRUE, exc |-> e, ret |-> 0, val |-> PyNone,
     newResults |-> <<>>, newDicts |-> <<>>, invoked |-> k]
ReturnResult(id, k) ==
    [raised |-> FALSE, exc |-> PyNone, ret |-> id, val |-> PyNone,
     newResults |-> <<>>, newDicts |-> <<>>, invoked |-> k]
ReturnNew(obj, ds, k) ==
    [raised |-> FALSE, exc |-> PyNone, ret |-> NextResult, val |-> PyNone,
     newResults |-> <<obj>>, newDicts |-> ds, invoked |-> k]
ReturnValue(v, k) ==
    [raised |-> FALSE, exc |-> PyNone, ret |-> 0, val |-> v,
     newResults |-> <<>>, newDicts |-> <<>>, invoked |-> k]

\* The dict literal of bind's and bind_err's except branch (321-328, 370-377).
BindFailure(self, e, func, args, kwargs) ==
    [keys |-> {"trace", "_val", "exception", "func", "args", "kwargs"},
     trace |-> format_exc(e), func |-> NameOf(func), args |-> args,
     kwargs |-> kwargs, exception |-> e, val |-> results[self].val,
     extra |-> {}]
NoNameError == PyExc("AttributeError", "object has no attribute '__name__'")

\* Result.map(self, func).
MapCopies(self, func) ==
    IF ~results[self].is_ok THEN ReturnNew(results[self], <<>>, 0)
    ELSE LET c == Call(func, <<results[self].val>>, {})
         IN IF c.raised THEN Propagate(c.val, 1)
            ELSE ReturnNew(ClsOk(c.val), <<>>, 1)
Map(self, func) ==
    IF ~results[self].is_ok THEN ReturnResult(self, 0)
    ELSE LET c == Call(func, <<results[self].val>>, {})
         IN IF c.raised THEN Propagate(c.val, 1)
            ELSE ReturnNew(ClsOk(c.val), <<>>, 1)

\* Result.map_err(self, func).
MapErr(self, func) ==
    IF results[self].is_ok THEN ReturnResult(self, 0)
    ELSE LET c == Call(func, <<results[self].val>>, {})
         IN IF c.raised THEN Propagate(c.val, 1)
            ELSE ReturnNew(ClsErr(c.val, ErrDefault), <<>>, 1)

\* Result.bind(self, func, *args, **kwargs).
BindRewraps(self, func, args, kwargs) ==
    IF ~results[self].is_ok THEN ReturnResult(self, 0)
    ELSE LET c == Call(func, <<results[self].val>> \o args, kwargs)
         IN IF ~c.raised THEN ReturnNew(ClsOk(results[self].val), <<>>, 1)
            ELSE IF ~ExceptMatches(c.val) THEN Propagate(c.val, 1)
            ELSE IF ~HasName(func) THEN Propagate(NoNameError, 1)
            ELSE ReturnNew(ClsErr(c.val, NextDict),
                           <<BindFailure(self, c.val, func, args, kwargs)>>, 1)
BindEager(self, func, args, kwargs) ==
    LET c == Call(func, <<results[self].val>> \o args, kwargs)
    IN IF ~results[self].is_ok THEN ReturnResult(self, 1)
       ELSE IF ~c.raised THEN ReturnNew(ClsOk(c.val), <<>>, 1)
       ELSE IF ~ExceptMatches(c.val) THEN Propagate(c.val, 1)
       ELSE IF ~HasName(func) THEN Propagate(NoNameError, 1)
       ELSE ReturnNew(ClsErr(c.val, NextDict),
                      <<BindFailure(self, c.val, func, args, kwargs)>>, 1)
Bind(self, func, args, kwargs) ==
    IF ~results[self].is_ok THEN ReturnResult(self, 0)
    ELSE LET c == Call(func, <<results[self].val>> \o args, kwargs)
         IN IF ~c.raised THEN ReturnNew(ClsOk(c.val), <<>>, 1)
            ELSE IF ~ExceptMatches(c.val) THEN Propagate(c.val, 1)
            ELSE IF ~HasName(func) THEN Propagate(NoNameError, 1)
            ELSE ReturnNew(ClsErr(c.val, NextDict),
                           <<BindFailure(self, c.val, func, args, kwargs)>>, 1)

\* Result.__rshift__(self, func, *args, **kwargs).
RShift(self, func, args, kwargs) == Bind(self, func, args, kwargs)

\* Result.bind_err(self, func, *args, **kwargs).
BindErr(self, func, args, kwargs) ==
    IF results[self].is_ok THEN ReturnResult(self, 0)
    ELSE LET c == Call(func, <<results[self].val>> \o args, kwargs)
         IN IF ~c.raised
            THEN ReturnNew(ClsErr(c.val, results[self].failure), <<>>, 1)
            ELSE IF ~ExceptMatches(c.val) THEN Propagate(c.val, 1)
            ELSE IF ~HasName(func) THEN Propagate(NoNameError, 1)
            ELSE ReturnNew(ClsErr(c.val, NextDict),
                           <<BindFailure(self, c.val, func, args, kwargs)>>, 1)

(***************************************************************************)
(* Extraction.                                                             *)
(***************************************************************************)
\* ValueError(msg): str() of the exception is str(msg).
ValueError(msg) == PyExc("ValueError", Str(msg))

\* Result.unwrap(self).
UnwrapMessageBare(self) == PyStr("Contents of Result is Err")
UnwrapMessage(self) ==
    PyStr("Contents of Result is Err: " \o Str(results[self].val))
Unwrap(self) ==
    IF results[self].is_ok THEN ReturnValue(results[self].val, 0)
    ELSE Propagate(ValueError(UnwrapMessage(self)), 0)

\* Result.unwrap_or(self, default).
UnwrapOrFalsy(self, default) ==
    IF results[self].is_ok /\ results[self].val # PyInt(0)
    THEN ReturnValue(results[self].val, 0)
    ELSE ReturnValue(default, 0)
UnwrapOr(self, default) ==
    IF results[self].is_ok THEN ReturnValue(results[self].val, 0)
    ELSE ReturnValue(default, 0)

\* Result.unwrap_or_else(self, op).
UnwrapOrElse(self, op) ==
    IF results[self].is_ok THEN ReturnValue(results[self].val, 0)
    ELSE LET c == Call(op, <<results[self].val>>, {})
         IN IF c.raised THEN Propagate(c.val, 1) ELSE ReturnValue(c.val, 1)

\* Result.expect(self, msg).
Expect(self, msg) ==
    IF results[self].is_ok THEN ReturnValue(results[self].val, 0)
    ELSE Propagate(ValueError(msg), 0)

\* Result.unwrap_err(self).
UnwrapErrMessage(self) ==
    PyStr("Contents of Result is Ok: " \o Str(results[self].val))
UnwrapErr(self) ==
    IF ~results[self].is_ok THEN ReturnValue(results[self].val, 0)
    ELSE Propagate(ValueError(UnwrapErrMessage(self)), 0)

\* Result.expect_err(self, msg).
ExpectErr(self, msg) ==
    IF ~results[self].is_ok THEN ReturnValue(results[self].val, 0)
    ELSE Propagate(ValueError(msg), 0)

(***************************************************************************)
(* FailureContainer and safe_exec.                                         *)
(***************************************************************************)
\* FailureContainer(func, args, kwargs, exception, val, **add_kwargs), built
\* while `active` is the exception being handled.
FailureContainer(func, args, kwargs, exception, val, add_kwargs, active) ==
    [func |-> func, args |-> args, kwargs |-> kwargs, exception |-> exception,
     val |-> val, trace |-> format_exc(active), additional |-> add_kwargs]

\* FailureContainer.as_dict(self): a new dict of the fields, _additional
\* popped and its items merged in.
as_dict(fc) ==
    [keys |-> {"func", "args", "kwargs", "exception", "val", "trace"}
                \cup KwNames(fc.additional),
     trace |-> fc.trace, func |-> fc.func, args |-> fc.args,
     kwargs |-> fc.kwargs, exception |-> fc.exception, val |-> fc.val,
     extra |-> fc.additional]

\* safe_exec(func) returns the wrapper once func.__annotations__ was read.
SafeExecWraps(func) == HasAnnotations(func)

\* The wrapper safe_exec(func) returns, called with *args, **kwargs.
WrapperOriginIsArg(args) == IF Len(args) > 0 THEN args[1] ELSE PyNone
WrapperOrigin(args) == PyNone
Wrapper(func, args, kwargs) ==
    LET c == Call(func, args, kwargs)
    IN IF ~c.raised THEN ReturnNew(ClsOk(c.val), <<>>, 1)
       ELSE IF ~ExceptMatches(c.val) THEN Propagate(c.val, 1)
       ELSE IF ~HasName(func) THEN Propagate(NoNameError, 1)
       ELSE ReturnNew(ClsErr(c.val, NextDict),
                      <<as_dict(FailureContainer(NameOf(func), args, kwargs,
                                                 c.val, WrapperOrigin(args),
                                                 {}, c.val))>>, 1)

(***************************************************************************)
(* The state machine.                                                      *)
(***************************************************************************)
Combinators == {"map", "map_err", "bind", "rshift", "bind_err"}
Absorbing == {"map", "bind", "rshift"}

NoCall ==
    [op |-> "none", self |-> 0, func |-> "", args |-> <<>>, kwargs |-> {},
     arg |-> PyNone, raised |-> FALSE, exc |-> PyNone, ret |-> 0,
     val |-> PyNone, invoked |-> 0]

\* The combinator calls made so far in the current chain r.a(..).b(..): the
\* Result the chain started from, the Result its last call returned (0 once
\* a call raised), the number of calls, how often they invoked their
\* callables and whether all of them were map, bind or >>.  Chains are
\* recorded in the behaviours that start with on = TRUE.
NoChain ==
    [on |-> FALSE, root |-> 0, cur |-> 0, len |-> 0, invoked |-> 0,
     absorbing |-> TRUE]

ChainAfter(op, self, eff) ==
    IF ~chain.on \/ op \notin Combinators THEN chain
    ELSE IF chain.len > 0 /\ chain.cur = self /\ chain.len < MaxChain
    THEN [on |-> TRUE, root |-> chain.root, cur |-> eff.ret,
          len |-> chain.len + 1,
          invoked |-> chain.invoked + eff.invoked,
          absorbing |-> chain.absorbing /\ op \in Absorbing]
    ELSE [on |-> TRUE, root |-> self, cur |-> eff.ret, len |-> 1,
          invoked |-> eff.invoked, absorbing |-> op \in Absorbing]

\* One call by client code and its effect on the heaps.
Perform(op, self, func, args, kwargs, arg, eff) ==
    /\ Len(results) + Len(eff.newResults) <= MaxResults
    /\ results' = results \o eff.newResults
    /\ dicts' = dicts \o eff.newDicts
    /\ last' = [op |-> op, self |-> self, func |-> func, args |-> args,
                kwargs |-> kwargs, arg |-> arg, raised |-> eff.raised,
                exc |-> eff.exc, ret |-> eff.ret, val |-> eff.val,
                invoked |-> eff.invoked]
    /\ chain' = ChainAfter(op, self, eff)

\* One call of the two chains r.bind(f).bind(g) and r.bind(lambda x: g(f(x))),
\* which together hold four Results.
PerformLaw(op, self, func, arg, eff) ==
    /\ Len(results) + Len(eff.newResults) <= MaxLawResults
    /\ results' = results \o eff.newResults
    /\ dicts' = dicts \o eff.newDicts
    /\ last' = [op |-> op, self |-> self, func |-> func, args |-> <<>>,
                kwargs |-> {}, arg |-> arg, raised |-> eff.raised,
                exc |-> eff.exc, ret |-> eff.ret, val |-> eff.val,
                invoked |-> eff.invoked]
    /\ chain' = ChainAfter(op, self, eff)

Objects == DOMAIN results

Init == /\ results = <<>>
        /\ dicts = <<EmptyDict, EmptyDict, EmptyDict>>
        /\ last = NoCall
        /\ chain = NoChain

\* Result.Ok(v).
CallResultOk(v) ==
    Perform("Result.Ok", 0, "", <<>>, {}, v, ReturnNew(ClsOk(v), <<>>, 0))

\* Result.Err(e).
CallResultErr(e) ==
    Perform("Result.Err", 0, "", <<>>, {}, e,
            ReturnNew(ClsErr(e, ErrDefault), <<>>, 0))

\* Result.Err(e, failure={"err": "Error"}): a dict the caller just made.
CallerDict ==
    [EmptyDict EXCEPT !.keys = {"err"}, !.extra = {<<"err", PyStr("Error")>>}]
CallResultErrWith(e) ==
    Perform("Result.Err", 0, "", <<>>, {<<"failure", PyNone>>}, e,
            ReturnNew(ClsErr(e, NextDict), <<CallerDict>>, 0))

\* The module-level Ok(v) and Err(e).
CallOk(v) ==
    Perform("Ok", 0, "", <<>>, {}, v, ReturnNew(ClsOk(v), <<>>, 0))
CallErr(e) ==
    Perform("Err", 0, "", <<>>, {}, e,
            ReturnNew(ClsErr(e, ModuleErrDefault), <<>>, 0))

\* Result(v, ok) and Result(v, ok, True): the class called directly.
CallInit(v, ok, build) ==
    LET i == ResultInit(v, ok, build, InitDefault)
    IN Perform("Result", 0, "", <<PyBool(ok)>>,
               IF build THEN {<<"_build", PyBool(TRUE)>>} ELSE {}, v,
               IF i.raised THEN Propagate(i.exc, 0)
               ELSE ReturnNew(i.obj, <<>>, 0))

CallMap(self, f) == Perform("map", self, f, <<>>, {}, PyNone, Map(self, f))
CallMapErr(self, f) ==
    Perform("map_err", self, f, <<>>, {}, PyNone, MapErr(self, f))
CallBind(self, f, a, k) ==
    Perform("bind", self, f, a, k, PyNone, Bind(self, f, a, k))
CallRShift(self, f) ==
    Perform("rshift", self, f, <<>>, {}, PyNone, RShift(self, f, <<>>, {}))
CallBindErr(self, f, a, k) ==
    Perform("bind_err", self, f, a, k, PyNone, BindErr(self, f, a, k))

CallUnwrap(self) ==
    Perform("unwrap", self, "", <<>>, {}, PyNone, Unwrap(self))
CallUnwrapOr(self, d) ==
    Perform("unwrap_or", self, "", <<>>, {}, d, UnwrapOr(self, d))
CallUnwrapOrElse(self, f) ==
    Perform("unwrap_or_else", self, f, <<>>, {}, PyNone, UnwrapOrElse(self, f))
CallExpect(self, m) ==
    Perform("expect", self, "", <<>>, {}, m, Expect(self, m))
CallUnwrapErr(self) ==
    Perform("unwrap_err", self, "", <<>>, {}, PyNone, UnwrapErr(self))
CallExpectErr(self, m) ==
    Perform("expect_err", self, "", <<>>, {}, m, ExpectErr(self, m))

\* A function decorated with @safe_exec, called.
CallWrapper(f, a, k) ==
    /\ SafeExecWraps(f)
    /\ Perform("safe_exec", 0, f, a, k, PyNone, Wrapper(f, a, k))

\* The calls of the two chains: Result.Ok(v), r.bind(f) and r >> f.
LawOk(v) ==
    PerformLaw("Result.Ok", 0, "", v, ReturnNew(ClsOk(v), <<>>, 0))
LawBind(self, f) ==
    PerformLaw("bind", self, f, PyNone, Bind(self, f, <<>>, {}))
LawRShift(self, f) ==
    PerformLaw("rshift", self, f, PyNone, RShift(self, f, <<>>, {}))

Defaults == {PyInt(0), PyStr("none")}
Messages == {PyStr("Something failed"), PyStr("there is an error here")}

WrapperCalls ==
    {[args |-> <<PyInt(0)>>, kwargs |-> {}],
     [args |-> <<PyInt(1)>>, kwargs |-> {}],
     [args |-> <<PyInt(0)>>, kwargs |-> {<<"by", PyInt(1)>>}]}

Construct ==
    \/ \E v \in InputVals : CallResultOk(v)
    \/ \E e \in InputFaults : CallResultErr(e)

ConstructMore ==
    \/ \E e \in InputFaults : CallResultErrWith(e)
    \/ \E v \in InputVals : CallOk(v)
    \/ \E e \in InputFaults : CallErr(e)

Combine ==
    \/ \E r \in Objects, f \in Funcs : CallMap(r, f)
    \/ \E r \in Objects, f \in Funcs : CallMapErr(r, f)
    \/ \E r \in Objects, f \in Funcs, x \in Extras :
          CallBind(r, f, x.args, x.kwargs)
    \/ \E r \in Objects, f \in Funcs : CallRShift(r, f)
    \/ \E r \in Objects, f \in Funcs, x \in Extras :
          CallBindErr(r, f, x.args, x.kwargs)

Extract ==
    \/ \E r \in Objects : CallUnwrap(r)
    \/ \E r \in Objects, d \in Defaults : CallUnwrapOr(r, d)
    \/ \E r \in Objects, f \in Funcs : CallUnwrapOrElse(r, f)
    \/ \E r \in Objects, m \in Messages : CallExpect(r, m)
    \/ \E r \in Objects : CallUnwrapErr(r)
    \/ \E r \in Objects, m \in Messages : CallExpectErr(r, m)

ExtractExact ==
    \/ \E r \in Objects : CallUnwrap(r)
    \/ \E r \in Objects : CallUnwrapErr(r)

SafeCall == \E f \in Funcs, x \in WrapperCalls : CallWrapper(f, x.args, x.kwargs)

Direct == \E v \in InputVals, ok \in BOOLEAN, b \in BOOLEAN : CallInit(v, ok, b)

Chain ==
    \/ \E r \in Objects, f \in Funcs : CallMap(r, f)
    \/ \E r \in Objects, f \in Funcs : CallBind(r, f, <<>>, {})
    \/ \E r \in Objects, f \in Funcs : CallRShift(r, f)

ChainErr ==
    \/ \E r \in Objects, f \in Funcs : CallMapErr(r, f)
    \/ \E r \in Objects, f \in Funcs : CallBindErr(r, f, <<>>, {})

ConstructWith == \E e \in InputFaults : CallResultErrWith(e)

\* The integers the chains start from; inv raises on one of them.
LawVals == {PyInt(0), PyInt(1)}

Law ==
    \/ \E v \in LawVals : LawOk(v)
    \/ \E r \in Objects, f \in Composable \cup Lambdas : LawBind(r, f)
    \/ \E r \in Objects, f \in Composable \cup Lambdas : LawRShift(r, f)

InitChain ==
    /\ results = <<>>
    /\ dicts = <<EmptyDict, EmptyDict, EmptyDict>>
    /\ last = NoCall
    /\ chain = [NoChain EXCEPT !.on = TRUE]

Next == Construct \/ ConstructMore \/ Combine \/ Extract \/ SafeCall \/ Direct
NextCombine == Construct \/ Combine
NextExtract == Construct \/ ConstructMore \/ Extract
NextSafeCall == Construct \/ SafeCall
NextChain == Construct \/ Chain
NextRoundTrip ==
    Construct \/ ConstructWith \/ Chain \/ ChainErr \/ ExtractExact

Spec == Init /\ [][Next]_vars
SpecCombine == Init /\ [][NextCombine]_vars
SpecExtract == Init /\ [][NextExtract]_vars
SpecSafeCall == Init /\ [][NextSafeCall]_vars
SpecChain == InitChain /\ [][NextChain]_vars
SpecRoundTrip == Init /\ [][NextRoundTrip]_vars
SpecLaw == InitChain /\ [][Law]_vars

(***************************************************************************)
(* Properties.  Each reads the last call from the variable last; the      *)
(* receiver's fields are read from the heap, which no call rewrites.      *)
(***************************************************************************)
Receiver == results[last.self]

\* The call the last combinator made, or would have made, to its callable.
Transformed == Call(last.func, <<Receiver.val>> \o last.args, last.kwargs)

\* Whether the last combinator call was on the arm that invokes the callable.
OnTransformArm ==
    IF last.op \in {"map", "bind", "rshift"} THEN Receiver.is_ok
    ELSE ~Receiver.is_ok

\* An exception that is an instance of Exception.
IsOrdinary(e) == e.cls # "SystemExit"

Wrapped == Call(last.func, last.args, last.kwargs)

\* C2 as stated: a function wrapped by safe_exec never raises.
C2_NeverRaises == last.op = "safe_exec" => ~last.raised

\* C2 amended: the wrapped function returns Ok(v) when the function returns
\* v; when it raises an Exception e it returns an Err holding e whose failure
\* dict has func = the function's name, args, kwargs, exception = e and
\* val = None; a fault that is no Exception is raised to the caller.
C2_SafeCall ==
    last.op = "safe_exec" =>
        IF ~Wrapped.raised
        THEN /\ ~last.raised
             /\ results[last.ret].is_ok
             /\ results[last.ret].val = Wrapped.val
        ELSE IF ~IsOrdinary(Wrapped.val)
        THEN last.raised /\ last.exc = Wrapped.val /\ last.ret = 0
        ELSE /\ ~last.raised
             /\ ~results[last.ret].is_ok
             /\ results[last.ret].val = Wrapped.val
             /\ LET d == dicts[results[last.ret].failure]
                IN /\ d.keys = {"func", "args", "kwargs", "exception", "val",
                                "trace"}
                   /\ d.func = last.func
                   /\ d.args = last.args
                   /\ d.kwargs = last.kwargs
                   /\ d.exception = Wrapped.val
                   /\ d.val = PyNone

\* A wrapped function raised ZeroDivisionError and the wrapper returned an Err
\* holding it, with the function's name recorded.
C2_Witness ==
    /\ last.op = "safe_exec" /\ ~last.raised
    /\ Wrapped.raised /\ Wrapped.val = ZeroDiv
    /\ ~results[last.ret].is_ok
    /\ results[last.ret].val = ZeroDiv
    /\ dicts[results[last.ret].failure].func = "inv"

\* C3: no two distinct Err Results reference the same failure dict.
C3_ExclusiveContext ==
    \A i, j \in Objects :
        i # j /\ ~results[i].is_ok /\ ~results[j].is_ok
            => results[i].failure # results[j].failure

\* C4 as stated: every combinator call that returns, returns a Result object
\* other than its receiver, on the pass-through arm too.
C4_AlwaysNew ==
    last.op \in Combinators /\ ~last.raised => last.ret # last.self

\* C4 amended: no call changes a field of an existing Result or the content
\* of an existing dict; a combinator call that returns on the transforming
\* arm returns a Result object that did not exist before the call, and on
\* the pass-through arm it returns the receiver itself.
C4_FrameAndFresh ==
    [][/\ \A i \in DOMAIN results :
              i \in DOMAIN results' /\ results'[i] = results[i]
       /\ \A k \in DOMAIN dicts : k \in DOMAIN dicts' /\ dicts'[k] = dicts[k]
       /\ (last'.op \in Combinators /\ ~last'.raised) =>
              IF OnTransformArm'
              THEN last'.ret \notin DOMAIN results
                   /\ last'.ret \in DOMAIN results'
              ELSE last'.ret = last'.self]_vars

\* A combinator transformed an Ok into a new Result holding another value,
\* the receiver still holding its own.
C4_Witness ==
    /\ last.op \in Combinators /\ OnTransformArm /\ ~last.raised
    /\ last.ret # last.self
    /\ Receiver.is_ok /\ results[last.ret].is_ok
    /\ results[last.ret].val # Receiver.val

\* C5: bind on Ok(v) with a transform that raises an Exception e returns an Err
\* holding e whose failure dict records the transform's name, v, e, args and
\* kwargs; with a transform that returns u it returns Ok(u).
C5_BindCaptures ==
    (last.op = "bind" /\ Receiver.is_ok
        /\ (Transformed.raised => IsOrdinary(Transformed.val))) =>
        /\ ~last.raised
        /\ last.ret \in Objects
        /\ IF ~Transformed.raised
           THEN results[last.ret].is_ok
                /\ results[last.ret].val = Transformed.val
           ELSE /\ ~results[last.ret].is_ok
                /\ results[last.ret].val = Transformed.val
                /\ LET d == dicts[results[last.ret].failure]
                   IN /\ d.func = last.func
                      /\ d.val = Receiver.val
                      /\ d.exception = Transformed.val
                      /\ d.args = last.args
                      /\ d.kwargs = last.kwargs

\* C6: after any chain of map, bind and >> calls that started from an Err, the
\* chain's value is that very Err (its fault and its failure dict included),
\* no call of the chain raised and none invoked its callable.
C6_ErrAbsorbs ==
    (chain.len > 0 /\ chain.absorbing /\ ~results[chain.root].is_ok) =>
        /\ chain.cur = chain.root
        /\ ~results[chain.cur].is_ok
        /\ results[chain.cur].val = results[chain.root].val
        /\ results[chain.cur].failure = results[chain.root].failure
        /\ chain.invoked = 0
        /\ ~last.raised /\ last.invoked = 0

\* A chain of three calls on an Err, the last of them a bind.
C6_Witness ==
    /\ chain.len >= 3 /\ chain.absorbing /\ ~results[chain.root].is_ok
    /\ last.op = "bind" /\ last.self = chain.root

\* C7: calling the class directly, whatever the arguments, raises TypeError
\* and makes no Result object.
C7_DirectRejected ==
    last.op = "Result" =>
        last.raised /\ last.exc.cls = "TypeError" /\ last.ret = 0

\* C8: unwrap and expect on an Err, unwrap_err and expect_err on an Ok, raise
\* ValueError and return nothing; unwrap's message embeds the fault, expect's
\* and expect_err's message is the msg given.
C8_WrongVariantFatal ==
    /\ (last.op \in {"unwrap", "expect"} /\ ~Receiver.is_ok) \/
       (last.op \in {"unwrap_err", "expect_err"} /\ Receiver.is_ok) =>
            /\ last.raised /\ last.exc.cls = "ValueError"
            /\ last.ret = 0 /\ last.val = PyNone
    /\ last.op = "unwrap" /\ ~Receiver.is_ok =>
            last.exc.s = "Contents of Result is Err: " \o Str(Receiver.val)
    /\ (last.op = "unwrap" /\ ~Receiver.is_ok /\ Receiver.val = PyStr("fail"))
            => last.exc.s = "Contents of Result is Err: fail"
    /\ last.op = "expect" /\ ~Receiver.is_ok => last.exc.s = last.arg.s
    /\ last.op = "expect_err" /\ Receiver.is_ok => last.exc.s = last.arg.s

\* unwrap was called on an Err holding an exception and raised.
C8_Witness ==
    /\ last.op = "unwrap" /\ ~Receiver.is_ok /\ Receiver.val = ZeroDiv
    /\ last.raised

\* C9 as stated: unwrap_or and unwrap_or_else return without raising, whatever
\* the fallback function.
C9_NeverFails ==
    last.op \in {"unwrap_or", "unwrap_or_else"} => ~last.raised

\* C9 amended: unwrap_or never raises and returns the held value on Ok, the
\* default on Err; unwrap_or_else returns the held value on Ok without
\* invoking the fallback, and on Err(f) invokes it once and returns fb(f)
\* when fb(f) returns, and raises what fb(f) raises when it raises.
C9_Defaulting ==
    /\ last.op = "unwrap_or" =>
            /\ ~last.raised /\ last.invoked = 0
            /\ last.val = IF Receiver.is_ok THEN Receiver.val ELSE last.arg
    /\ last.op = "unwrap_or_else" =>
            IF Receiver.is_ok
            THEN ~last.raised /\ last.invoked = 0 /\ last.val = Receiver.val
            ELSE /\ last.invoked = 1
                 /\ IF Transformed.raised
                    THEN last.raised /\ last.exc = Transformed.val
                    ELSE ~last.raised /\ last.val = Transformed.val

\* unwrap_or_else on Err(1) returned flip(1) = 0.
C9_Witness ==
    /\ last.op = "unwrap_or_else" /\ ~Receiver.is_ok /\ ~last.raised
    /\ last.func = "flip" /\ Receiver.val = PyInt(1) /\ last.val = PyInt(0)

\* C10: the Result made by Ok(v) has is_ok true, is_err false and unwraps to
\* v; the Result made by Err(f, ctx) has is_err true, is_ok false and
\* unwrap_err gives f; unwrap on an Ok and unwrap_err on an Err return the
\* held value; every Result has exactly one of is_ok and is_err true.
C10_RoundTrip ==
    /\ last.op \in {"Result.Ok", "Ok"} =>
            /\ is_ok(results[last.ret]) = TRUE
            /\ is_err(results[last.ret]) = FALSE
            /\ Unwrap(last.ret) = ReturnValue(last.arg, 0)
    /\ last.op \in {"Result.Err", "Err"} =>
            /\ is_err(results[last.ret]) = TRUE
            /\ is_ok(results[last.ret]) = FALSE
            /\ UnwrapErr(last.ret) = ReturnValue(last.arg, 0)
    /\ last.op = "unwrap" /\ is_ok(Receiver) =>
            ~last.raised /\ last.val = Receiver.val
    /\ last.op = "unwrap_err" /\ is_err(Receiver) =>
            ~last.raised /\ last.val = Receiver.val
    /\ \A i \in Objects : is_ok(results[i]) # is_err(results[i])

\* unwrap_err returned the fault of an Err built with a failure dict, next to
\* a Result a combinator made.
C10_Witness ==
    /\ last.op = "unwrap_err" /\ is_err(Receiver) /\ ~last.raised
    /\ last.val = PyStr("fail")
    /\ dicts[Receiver.failure].keys = {"err"}
    /\ \E i \in Objects : results[i].val.cls = "TypeError"

\* The chain r.a(f).b(g) has just been completed, a and b each bind or >>,
\* on r = Ok(v) with neither f(v) nor g(f(v)) raising; the first call is known
\* by the Result it returned, the second is the last call.
ChainedThrough(f, g) ==
    /\ chain.len = 2 /\ last.op \in {"bind", "rshift"} /\ last.func = g
    /\ ~last.raised /\ last.ret = chain.cur
    /\ results[chain.root].is_ok
    /\ ~Call(f, <<results[chain.root].val>>, {}).raised
    /\ results[last.self].is_ok
    /\ results[last.self].val = Call(f, <<results[chain.root].val>>, {}).val
    /\ ~Call(g, <<results[last.self].val>>, {}).raised

\* g(f(v)) for the v held by the Result the chain started from.
Composed(f, g) ==
    Call(g, <<Call(f, <<results[chain.root].val>>, {}).val>>, {}).val

\* C11: when Ok(v).bind(f).bind(g) has been evaluated with neither f(v) nor
\* g(f(v)) raising, and Ok(v).bind(lambda x: g(f(x))) is evaluated next on the
\* same Ok(v), the second returns a Result of the same variant and the same
\* held value as the first, namely Ok(g(f(v))); likewise with >> in place of
\* bind in either chain.
C11_Associativity ==
    [][\A f \in Composable, g \in Composable :
          (/\ ChainedThrough(f, g)
           /\ last'.op \in {"bind", "rshift"}
           /\ last'.self = chain.root
           /\ last'.func = LambdaId(f, g))
          => /\ ~last'.raised
             /\ results'[last'.ret].is_ok /\ results[chain.cur].is_ok
             /\ results'[last'.ret].val = results[chain.cur].val
             /\ results[chain.cur].val = Composed(f, g)]_vars

\* Ok(1).bind(inv).bind(flip) gave Ok(1) and then Ok(0), and
\* Ok(1).bind(lambda x: flip(inv(x))) then gave another Ok(0).
C11_Witness ==
    /\ Len(results) = 4
    /\ \A i \in 1..4 : results[i].is_ok
    /\ results[1].val = PyInt(1) /\ results[2].val = PyInt(1)
    /\ results[3].val = PyInt(0) /\ results[4].val = PyInt(0)
    /\ last.op = "bind" /\ last.self = 1 /\ last.ret = 4 /\ ~last.raised
    /\ last.func = LambdaId("inv", "flip")
    /\ chain.root = 1 /\ chain.cur = 4 /\ chain.len = 1

====
